---- MODULE Spec2Model ----
(***************************************************************************)
(* PdM RUL API (src/app.py): the module-level artifact loading, the alias *)
(* registry and the four endpoints /, /health, /info and /predict.        *)
(*                                                                         *)
(* Python floats are modelled by integers (0 stands for 0.0).  A JSON      *)
(* value of the payload is a record [kind, v]:                             *)
(*   "null"    JSON null, decoded to Python None                           *)
(*   "number"  a JSON number v                                             *)
(*   "numstr"  a JSON string that float() parses, the decimal text of v    *)
(*   "text"    a JSON string that float() rejects (ValueError)             *)
(*   "object"  a JSON array or object (float() raises TypeError)           *)
(***************************************************************************)
EXTENDS Integers, Sequences, FiniteSets, TLC

VARIABLES
    model,                  \* global `model`: "None" or the unpickled regressor
    scaler,                 \* global `scaler`: "None" or the unpickled scaler
    internal_features,      \* global `internal_features`: the ordered schema
    readable_to_internal,   \* global dict, kept as its ordered item list
    internal_to_readables,  \* global dict internal name -> list of readable names
    request,                \* payload.data of the request being answered
    stage,                  \* how far the handler of that request got
    row,                    \* local `row` of predict() when the handler left
    missing,                \* local `missing` of predict() when the handler left
    calls,                  \* collaborator invocations made for the request
    response                \* the response in flight to the client

globals == <<model, scaler, internal_features, readable_to_internal, internal_to_readables>>
locals == <<request, stage, row, missing, calls, response>>
vars == <<model, scaler, internal_features, readable_to_internal, internal_to_readables,
          request, stage, row, missing, calls, response>>

----------------------------------------------------------------------------
(* Bounds of the model. *)

MaxNum == 1        \* payload numbers are 0..MaxNum, numeric strings "1".."MaxNum"
MaxKeys == 2       \* a payload has at most MaxKeys keys
MaxLines == 2      \* features.txt has at most MaxLines lines
MaxRUL == 1        \* the regressor predicts a value in 0..MaxRUL

----------------------------------------------------------------------------
(* Python and JSON values. *)

PyNone == [kind |-> "null", v |-> 0]
Num(n) == [kind |-> "number", v |-> n]
NumStr(n) == [kind |-> "numstr", v |-> n]
Text == [kind |-> "text", v |-> 0]
Object == [kind |-> "object", v |-> 0]

Values ==
    {PyNone, Text, Object} \cup {Num(n) : n \in 0..MaxNum} \cup {NumStr(n) : n \in 1..MaxNum}

\* Keys a client may send: a canonical name that has an alias, that alias,
\* a second canonical name, and a key the service knows nothing about.
PayloadKeys == {"op_setting1", "Altitude_factor", "s1", "vibration_rms"}

Payloads ==
    UNION {[K -> Values] : K \in {S \in SUBSET PayloadKeys : Cardinality(S) <= MaxKeys}}

\* Lines features.txt may hold (already stripped; "" is a blank line).
FileLines == {"", "op_setting1", "s1"}

FeatureFiles == UNION {[1..n -> FileLines] : n \in 0..MaxLines}

\* Mutant of PyFloat: a string that is no number converts to 0.0.
PyFloatLenient(val) ==
    IF val.kind \in {"number", "numstr", "text"}
    THEN [raised |-> FALSE, f |-> val.v]
    ELSE [raised |-> TRUE, f |-> 0]

\* float(val): the converted number, or the exception float() raises.
PyFloat(val) ==
    IF val.kind \in {"number", "numstr"}
    THEN [raised |-> FALSE, f |-> val.v]
    ELSE [raised |-> TRUE, f |-> 0]

----------------------------------------------------------------------------
(* Artifact loading, src/app.py lines 55-80. *)

RECURSIVE StripLines(_)
StripLines(lines) ==
    IF lines = <<>> THEN <<>>
    ELSE IF Head(lines) = "" THEN StripLines(Tail(lines))
    ELSE <<Head(lines)>> \o StripLines(Tail(lines))

\* found: find_artifact_paths() returned paths; loaded: no exception in the
\* try block; m, s: the unpickled objects; lines: the content of features.txt.
LoadArtifacts(found, loaded, m, s, lines) ==
    IF found /\ loaded
    THEN [model |-> m, scaler |-> s, internal_features |-> StripLines(lines)]
    ELSE [model |-> "None", scaler |-> "None", internal_features |-> <<>>]

----------------------------------------------------------------------------
(* The alias registry, src/app.py lines 85-115. *)

ReadableToInternal ==
    << <<"Altitude_factor", "op_setting1">>,
       <<"Throttle_resolver_angle", "op_setting2">>,
       <<"Mach_temperature_index", "op_setting3">>,
       <<"Fan_inlet_temperature_T2", "s1">>,
       <<"LPC_outlet_temperature_T24", "s2">>,
       <<"HPC_outlet_temperature_T30", "s3">>,
       <<"LPT_outlet_temperature_T50", "s4">>,
       <<"Fan_inlet_pressure_P2", "s5">>,
       <<"LPC_outlet_pressure_P15", "s6">>,
       <<"HPC_outlet_pressure_P30", "s7">>,
       <<"Physical_fan_speed_Nf", "s8">>,
       <<"Physical_core_speed_Nc", "s9">>,
       <<"Engine_pressure_ratio_EPR", "s10">>,
       <<"Bypass_duct_exit_pressure_Ps30", "s11">>,
       <<"Fuel_flow_ratio_to_Ps30", "s12">>,
       <<"Corrected_fan_speed_Wf", "s13">>,
       <<"Corrected_core_speed", "s14">>,
       <<"Bypass_ratio_BPR", "s15">>,
       <<"Burner_fuel_air_ratio_FARB", "s16">>,
       <<"Bleed_enthalpy", "s17">>,
       <<"Demanded_fan_speed", "s18">>,
       <<"Demanded_corrected_fan_speed", "s19">>,
       <<"HPT_coolant_bleed", "s20">>,
       <<"LPT_coolant_bleed", "s21">> >>

\* d.get(k, []) on a dict of lists.
GetList(d, k) == IF k \in DOMAIN d THEN d[k] ELSE <<>>

\* d.setdefault(i, []).append(r)
SetDefaultAppend(d, i, r) ==
    [k \in DOMAIN d \cup {i} |-> IF k = i THEN Append(GetList(d, i), r) ELSE d[k]]

\* for r, i in readable_to_internal.items(): ...
RECURSIVE BuildInverse(_, _)
BuildInverse(items, d) ==
    IF items = <<>> THEN d
    ELSE BuildInverse(Tail(items), SetDefaultAppend(d, Head(items)[2], Head(items)[1]))

EmptyDict == [k \in {} |-> <<>>]

----------------------------------------------------------------------------
(* POST /predict, src/app.py lines 160-203. *)

\* Mutant of NotLoaded: the gate looks at the model only.
NotLoadedModelOnly == model = "None"

\* The readiness gate of predict(), line 162.
NotLoaded == model = "None" \/ scaler = "None" \/ internal_features = <<>>

\* isinstance(user_dict, dict), line 167: pydantic has validated `data: dict`.
IsDict(user_dict) == DOMAIN user_dict \subseteq STRING

\* Lines 180-183: the value under the first alias that is a key, else None.
RECURSIVE FirstAlias(_, _)
FirstAlias(aliases, user_dict) ==
    IF aliases = <<>> THEN PyNone
    ELSE IF Head(aliases) \in DOMAIN user_dict THEN user_dict[Head(aliases)]
    ELSE FirstAlias(Tail(aliases), user_dict)

\* Mutant of SelectVal: a null under the canonical key falls through to the
\* aliases (a lookup by user_dict.get(feat) instead of `feat in user_dict`).
SelectValNullFallsThrough(feat, user_dict) ==
    IF feat \in DOMAIN user_dict /\ user_dict[feat] # PyNone
    THEN user_dict[feat]
    ELSE FirstAlias(GetList(internal_to_readables, feat), user_dict)

\* Lines 173-183: `val` after the lookup of one feature.
SelectVal(feat, user_dict) ==
    IF feat \in DOMAIN user_dict
    THEN user_dict[feat]
    ELSE FirstAlias(GetList(internal_to_readables, feat), user_dict)

\* Mutant of ResolveOne: a feature that was not found is not defaulted.
ResolveOneNoDefault(feat, user_dict) ==
    LET sel == SelectVal(feat, user_dict)
    IN  [isNone |-> sel = PyNone, val |-> sel, conv |-> PyFloat(sel)]

\* Lines 173-188 for one feature: whether `val is None` held, `val` as
\* handed to float(), and what float(val) gave.
ResolveOne(feat, user_dict) ==
    LET sel == SelectVal(feat, user_dict)
        isNone == sel = PyNone
        val == IF isNone THEN Num(0) ELSE sel
    IN  [isNone |-> isNone, val |-> val, conv |-> PyFloat(val)]

\* Mutant of ResolveFrom: the converted value is put at the front of the row.
RECURSIVE ResolveFromPrepend(_, _, _, _)
ResolveFromPrepend(k, rowSoFar, missingSoFar, user_dict) ==
    IF k > Len(internal_features)
    THEN [ok |-> TRUE, row |-> rowSoFar, missing |-> missingSoFar,
          feat |-> "", val |-> PyNone]
    ELSE LET feat == internal_features[k]
             one == ResolveOne(feat, user_dict)
             missing2 == IF one.isNone THEN Append(missingSoFar, feat) ELSE missingSoFar
         IN  IF one.conv.raised
             THEN [ok |-> FALSE, row |-> rowSoFar, missing |-> missing2,
                   feat |-> feat, val |-> one.val]
             ELSE ResolveFromPrepend(k + 1, <<one.conv.f>> \o rowSoFar, missing2,
                                     user_dict)

\* Lines 172-190 from the k-th feature on, with the lists built so far.
\* ok = FALSE: float(val) raised for `feat` with value `val`.
RECURSIVE ResolveFrom(_, _, _, _)
ResolveFrom(k, rowSoFar, missingSoFar, user_dict) ==
    IF k > Len(internal_features)
    THEN [ok |-> TRUE, row |-> rowSoFar, missing |-> missingSoFar,
          feat |-> "", val |-> PyNone]
    ELSE LET feat == internal_features[k]
             one == ResolveOne(feat, user_dict)
             missing2 == IF one.isNone THEN Append(missingSoFar, feat) ELSE missingSoFar
         IN  IF one.conv.raised
             THEN [ok |-> FALSE, row |-> rowSoFar, missing |-> missing2,
                   feat |-> feat, val |-> one.val]
             ELSE ResolveFrom(k + 1, Append(rowSoFar, one.conv.f), missing2, user_dict)

\* Mutant of ResolveFeatures: every value of the payload is converted first,
\* whether its key is known or not.
ResolveFeaturesValidateAll(user_dict) ==
    LET bad == {key \in DOMAIN user_dict :
                    user_dict[key] # PyNone /\ PyFloat(user_dict[key]).raised}
    IN  IF bad # {}
        THEN LET key == CHOOSE b \in bad : TRUE
             IN  [ok |-> FALSE, row |-> <<>>, missing |-> <<>>,
                  feat |-> key, val |-> user_dict[key]]
        ELSE ResolveFrom(1, <<>>, <<>>, user_dict)

\* Lines 170-190: row = [], missing = [], then the loop.
ResolveFeatures(user_dict) == ResolveFrom(1, <<>>, <<>>, user_dict)

\* Mutant of Infer: a failure of the scaler is swallowed and the model is
\* asked to predict from the unscaled row.
InferUnscaledFallback(res, tfmRaises, prdRaises, pred) ==
    LET callT == [fn |-> "scaler.transform", x |-> res.row, raised |-> tfmRaises]
        callP == [fn |-> "model.predict", x |-> res.row, raised |-> prdRaises]
    IN  IF prdRaises
        THEN [stage |-> "predict", row |-> res.row, missing |-> res.missing,
              calls |-> <<callT, callP>>,
              response |-> [endpoint |-> "/predict", status |-> 500,
                            detail |-> "Model prediction failed"]]
        ELSE [stage |-> "return", row |-> res.row, missing |-> res.missing,
              calls |-> <<callT, callP>>,
              response |-> [endpoint |-> "/predict", status |-> 200,
                            Predicted_RUL |-> pred,
                            missing_filled_with_zero |-> res.missing]]

\* Lines 192-203 on a resolved row.  tfmRaises / prdRaises: whether
\* scaler.transform / model.predict raises on it; pred: the prediction.
\* A call is logged with the row it derives from and whether it raised.
Infer(res, tfmRaises, prdRaises, pred) ==
    LET callT == [fn |-> "scaler.transform", x |-> res.row, raised |-> tfmRaises]
        callP == [fn |-> "model.predict", x |-> res.row, raised |-> prdRaises]
    IN  IF tfmRaises
        THEN [stage |-> "transform", row |-> res.row, missing |-> res.missing,
              calls |-> <<callT>>,
              response |-> [endpoint |-> "/predict", status |-> 500,
                            detail |-> "Scaler transform failed"]]
        ELSE IF prdRaises
        THEN [stage |-> "predict", row |-> res.row, missing |-> res.missing,
              calls |-> <<callT, callP>>,
              response |-> [endpoint |-> "/predict", status |-> 500,
                            detail |-> "Model prediction failed"]]
        ELSE [stage |-> "return", row |-> res.row, missing |-> res.missing,
              calls |-> <<callT, callP>>,
              response |-> [endpoint |-> "/predict", status |-> 200,
                            Predicted_RUL |-> pred,
                            missing_filled_with_zero |-> res.missing]]

\* The whole handler: what it leaves behind and what it answers.
PredictRun(user_dict, tfmRaises, prdRaises, pred) ==
    IF NotLoaded
    THEN [stage |-> "gate", row |-> <<>>, missing |-> <<>>, calls |-> <<>>,
          response |-> [endpoint |-> "/predict", status |-> 500,
                        detail |-> "Model or scaler not loaded on server. Check logs."]]
    ELSE IF ~IsDict(user_dict)
    THEN [stage |-> "shape", row |-> <<>>, missing |-> <<>>, calls |-> <<>>,
          response |-> [endpoint |-> "/predict", status |-> 400,
                        detail |-> "data must be an object/dict of feature:value pairs"]]
    ELSE LET res == ResolveFeatures(user_dict)
         IN  IF ~res.ok
             THEN [stage |-> "resolve", row |-> res.row, missing |-> res.missing,
                   calls |-> <<>>,
                   response |-> [endpoint |-> "/predict", status |-> 400,
                                 detail |-> "Feature has non-numeric value",
                                 feature |-> res.feat, value |-> res.val]]
             ELSE Infer(res, tfmRaises, prdRaises, pred)

----------------------------------------------------------------------------
(* The state machine. *)

NoResponse == [endpoint |-> "none", status |-> 0]
NoData == [k \in {} |-> PyNone]

Idle == response = NoResponse

Init ==
    /\ \E found \in BOOLEAN, loaded \in BOOLEAN,
          m \in {"None", "XGBRegressor"}, s \in {"None", "StandardScaler"},
          lines \in FeatureFiles :
          LET a == LoadArtifacts(found, loaded, m, s, lines)
          IN  /\ model = a.model
              /\ scaler = a.scaler
              /\ internal_features = a.internal_features
    /\ readable_to_internal = ReadableToInternal
    /\ internal_to_readables = BuildInverse(ReadableToInternal, EmptyDict)
    /\ request = NoData
    /\ stage = "idle"
    /\ row = <<>>
    /\ missing = <<>>
    /\ calls = <<>>
    /\ response = NoResponse

\* A handler that runs no resolution and calls no collaborator answers `resp`.
Answer(resp) ==
    /\ Idle
    /\ request' = NoData
    /\ stage' = "return"
    /\ row' = <<>>
    /\ missing' = <<>>
    /\ calls' = <<>>
    /\ response' = resp
    /\ UNCHANGED globals

\* GET /, lines 126-133.
Root ==
    Answer([endpoint |-> "/", status |-> 200, health |-> "/health", info |-> "/info"])

\* The body of GET /health, lines 137-143 (the two paths are left out).
HealthBody ==
    LET ok == model # "None" /\ scaler # "None" /\ Len(internal_features) > 0
    IN  [endpoint |-> "/health", status |-> 200,
         body_status |-> IF ok THEN "ok" ELSE "error",
         features_count |-> Len(internal_features)]

Health == Answer(HealthBody)

\* The body of GET /info, lines 147-158.
InfoBody ==
    [endpoint |-> "/info", status |-> 200,
     model_loaded |-> model # "None",
     features |-> [k \in 1..Len(internal_features) |->
                      [internal_name |-> internal_features[k],
                       readable_aliases |->
                           GetList(internal_to_readables, internal_features[k])]]]

Info == Answer(InfoBody)

\* Mutant of Predict: a failed prediction unloads the model.
PredictUnloadsOnFailure(user_dict, tfmRaises, prdRaises, pred) ==
    /\ Idle
    /\ LET r == PredictRun(user_dict, tfmRaises, prdRaises, pred)
       IN  /\ request' = user_dict
           /\ stage' = r.stage
           /\ row' = r.row
           /\ missing' = r.missing
           /\ calls' = r.calls
           /\ response' = r.response
           /\ model' = IF r.stage = "predict" THEN "None" ELSE model
    /\ UNCHANGED <<scaler, internal_features, readable_to_internal, internal_to_readables>>

\* POST /predict with body {"data": user_dict}.
Predict(user_dict, tfmRaises, prdRaises, pred) ==
    /\ Idle
    /\ LET r == PredictRun(user_dict, tfmRaises, prdRaises, pred)
       IN  /\ request' = user_dict
           /\ stage' = r.stage
           /\ row' = r.row
           /\ missing' = r.missing
           /\ calls' = r.calls
           /\ response' = r.response
    /\ UNCHANGED globals

\* The response has been sent; the request's locals are gone.
Respond ==
    /\ ~Idle
    /\ request' = NoData
    /\ stage' = "idle"
    /\ row' = <<>>
    /\ missing' = <<>>
    /\ calls' = <<>>
    /\ response' = NoResponse
    /\ UNCHANGED globals

\* A client posts any payload; the collaborators behave in any way.
PredictAny ==
    /\ Idle
    /\ \E user_dict \in Payloads, tfmRaises \in BOOLEAN, prdRaises \in BOOLEAN,
          pred \in 0..MaxRUL : Predict(user_dict, tfmRaises, prdRaises, pred)

Next ==
    \/ Root
    \/ Health
    \/ Info
    \/ PredictAny
    \/ Respond

Spec == Init /\ [][Next]_vars

----------------------------------------------------------------------------
(* Vocabulary of the properties. *)

InSeq(x, seq) == \E i \in 1..Len(seq) : seq[i] = x

\* The service is Ready: both collaborators loaded and a non-empty schema.
Ready == model # "None" /\ scaler # "None" /\ Len(internal_features) > 0

\* A /predict request has been answered and its response is in flight.
Answered == response.endpoint = "/predict"

\* The handler got past the readiness gate and the shape check.
Resolving == Answered /\ stage \in {"resolve", "transform", "predict", "return"}

\* Resolution succeeded: the whole row was assembled.
Resolved == Answered /\ stage \in {"transform", "predict", "return"}

\* Positions of the registry entries that make a readable name an alias of f.
AliasIdx(f) ==
    {i \in 1..Len(readable_to_internal) : readable_to_internal[i][2] = f}

AliasesOf(f) == {readable_to_internal[i][1] : i \in AliasIdx(f)}

\* The aliases of f that are keys of payload p, by registry position.
PresentAliasIdx(f, p) ==
    {i \in AliasIdx(f) : readable_to_internal[i][1] \in DOMAIN p}

Absent == [kind |-> "absent", v |-> 0]

\* What the payload supplies for f: under the canonical key, or else under
\* the first alias (registry order) that is a key, or else nothing.
Supplied(f, p) ==
    IF f \in DOMAIN p THEN p[f]
    ELSE IF PresentAliasIdx(f, p) # {}
    THEN LET i == CHOOSE j \in PresentAliasIdx(f, p) :
                      \A h \in PresentAliasIdx(f, p) : j <= h
         IN  p[readable_to_internal[i][1]]
    ELSE Absent

\* Neither f nor any alias of f is a key of p.
Omitted(f, p) == f \notin DOMAIN p /\ AliasesOf(f) \cap DOMAIN p = {}

Numeric(val) == val.kind \in {"number", "numstr"}

\* Keys that name a schema feature or an alias of one.
RelevantKeys ==
    {internal_features[k] : k \in 1..Len(internal_features)}
        \cup UNION {AliasesOf(internal_features[k]) : k \in 1..Len(internal_features)}

Restrict(p, keys) == [k \in DOMAIN p \cap keys |-> p[k]]

----------------------------------------------------------------------------
(* Properties of the readiness gate. *)

\* C1: while the service is Unready (model is None, or scaler is None, or the
\* schema is empty), every /predict request, whatever its payload, is answered
\* 500 "not loaded" at the gate: no feature was resolved (row and missing were
\* never built) and neither scaler.transform nor model.predict was invoked.
C1_UnreadyFailsAtGate ==
    (Answered /\ ~Ready) =>
        /\ response.status = 500
        /\ response.detail = "Model or scaler not loaded on server. Check logs."
        /\ stage = "gate"
        /\ row = <<>>
        /\ missing = <<>>
        /\ calls = <<>>

\* The scaler alone is missing, the schema is loaded, and a payload that
\* names a schema feature was turned away at the gate.
C1_Witness ==
    /\ Answered
    /\ model # "None"
    /\ scaler = "None"
    /\ internal_features = <<"op_setting1", "s1">>
    /\ DOMAIN request = {"op_setting1", "s1"}
    /\ stage = "gate"

----------------------------------------------------------------------------
(* Properties of the resolved vector. *)

\* C2: whenever resolution succeeds, the row has exactly len(internal_features)
\* entries, entry k is the value resolved for the k-th schema feature (the
\* number supplied for it, or 0.0 when nothing or null was supplied), every
\* identifier of the missing list is a schema feature, and this row is the one
\* handed to scaler.transform.
C2_RowAlignedToSchema ==
    Resolved =>
        /\ Len(row) = Len(internal_features)
        /\ \A k \in 1..Len(internal_features) :
               LET sup == Supplied(internal_features[k], request)
               IN  row[k] = IF Numeric(sup) THEN sup.v ELSE 0
        /\ \A j \in 1..Len(missing) : InSeq(missing[j], internal_features)
        /\ calls[1].fn = "scaler.transform" /\ calls[1].x = row
        /\ stage = "return" => response.missing_filled_with_zero = missing

\* The second feature is supplied and the first is not: the supplied value
\* sits in slot 2 and slot 1 holds the default.
C2_Witness ==
    /\ Resolved
    /\ internal_features = <<"op_setting1", "s1">>
    /\ DOMAIN request = {"s1"}
    /\ request["s1"] = Num(1)
    /\ row = <<0, 1>>
    /\ missing = <<"op_setting1">>

\* C4: for every payload that omits a schema feature f (neither f nor an alias
\* of f is a key), the request is not failed because of f, and once the row is
\* assembled f's slot is exactly 0.0 and f is in the missing list, which a
\* successful answer returns as missing_filled_with_zero.
C4_OmittedDefaultsToZero ==
    Resolving =>
        \A k \in 1..Len(internal_features) :
            Omitted(internal_features[k], request) =>
                /\ stage = "resolve" => response.feature # internal_features[k]
                /\ stage # "resolve" =>
                       /\ row[k] = 0
                       /\ InSeq(internal_features[k], missing)
                /\ stage = "return" =>
                       InSeq(internal_features[k], response.missing_filled_with_zero)

\* Schema [op_setting1, s1] and payload {Altitude_factor: 1}: s1 is omitted,
\* the answer is a success with row [1, 0] and missing [s1].
C4_Witness ==
    /\ Answered
    /\ stage = "return"
    /\ internal_features = <<"op_setting1", "s1">>
    /\ DOMAIN request = {"Altitude_factor"}
    /\ request["Altitude_factor"] = Num(1)
    /\ row = <<1, 0>>
    /\ response.missing_filled_with_zero = <<"s1">>

\* C3: alias precedence.  For every schema feature f and every payload that
\* holds both the key f and an alias key of f with different values, the value
\* in f's slot of the resolved vector is the one supplied under the canonical
\* key f, never the alias value.
C3_CanonicalValueWins ==
    Resolved =>
        \A k \in 1..Len(internal_features) :
            LET f == internal_features[k]
            IN  \A a \in AliasesOf(f) :
                    (f \in DOMAIN request /\ a \in DOMAIN request
                        /\ request[f] # request[a]) =>
                        /\ Numeric(request[f])
                        /\ row[k] = request[f].v

\* C10: when the canonical key f is a key of the payload, f's aliases are not
\* consulted even if the canonical value is null: f's slot is then 0.0 and f is
\* listed as missing, whatever an alias supplies.  In general f is listed as
\* missing exactly when the selected value (canonical, else first alias) is
\* absent or null.
C10_NullCanonicalShadowsAlias ==
    Resolved =>
        \A k \in 1..Len(internal_features) :
            LET f == internal_features[k]
            IN  /\ (f \in DOMAIN request /\ request[f] = PyNone) =>
                       (row[k] = 0 /\ InSeq(f, missing))
                /\ (f \in DOMAIN request /\ Numeric(request[f])) =>
                       row[k] = request[f].v
                /\ InSeq(f, missing) <=> Supplied(f, request) \in {Absent, PyNone}

\* Payload {op_setting1: null, Altitude_factor: 1}: the slot is 0.0, not 1.0.
C10_Witness ==
    /\ Answered
    /\ stage = "return"
    /\ internal_features = <<"op_setting1">>
    /\ DOMAIN request = {"op_setting1", "Altitude_factor"}
    /\ request["op_setting1"] = PyNone
    /\ request["Altitude_factor"] = Num(1)
    /\ row = <<0>>
    /\ response.missing_filled_with_zero = <<"op_setting1">>

----------------------------------------------------------------------------
(* Properties of the resolution errors. *)

\* The first schema position whose supplied value satisfies Bad(_).
FirstWhere(Bad(_)) ==
    CHOOSE k \in 1..Len(internal_features) :
        /\ Bad(Supplied(internal_features[k], request))
        /\ \A h \in 1..(k - 1) : ~Bad(Supplied(internal_features[h], request))

IsText(val) == val.kind = "text"
Unconvertible(val) == val.kind \in {"text", "object"}

\* C5 as stated: if the value resolved for some schema feature is a
\* non-numeric string, the request fails with a 400 non-numeric error naming
\* the first such feature in schema order; nothing is predicted and neither
\* collaborator is invoked.
C5_NamesFirstNonNumericString ==
    (Resolving /\ \E k \in 1..Len(internal_features) :
                      IsText(Supplied(internal_features[k], request))) =>
        /\ stage = "resolve"
        /\ response.status = 400
        /\ response.detail = "Feature has non-numeric value"
        /\ response.feature = internal_features[FirstWhere(IsText)]
        /\ calls = <<>>

\* C5 (amended): if the value resolved for some schema feature is a
\* non-numeric string, the request fails with a 400 non-numeric error naming
\* the first feature in schema order whose resolved value float() rejects (a
\* non-numeric string, or an array or object); the message carries that value,
\* nothing is predicted and neither collaborator is invoked.
C5_NamesFirstUnconvertible ==
    (Resolving /\ \E k \in 1..Len(internal_features) :
                      IsText(Supplied(internal_features[k], request))) =>
        /\ stage = "resolve"
        /\ response.status = 400
        /\ response.detail = "Feature has non-numeric value"
        /\ response.feature = internal_features[FirstWhere(Unconvertible)]
        /\ response.value =
               Supplied(internal_features[FirstWhere(Unconvertible)], request)
        /\ calls = <<>>

\* A string for s1 behind an object for op_setting1: the request is refused
\* and the message names op_setting1.
C5_Witness ==
    /\ Answered
    /\ internal_features = <<"op_setting1", "s1">>
    /\ DOMAIN request = {"op_setting1", "s1"}
    /\ request["op_setting1"] = Object
    /\ request["s1"] = Text
    /\ response.status = 400
    /\ response.feature = "op_setting1"

\* C6: if the payload key that resolves a schema feature f (the canonical key,
\* or else the first matching alias) is present with a null value, resolution
\* aborts with a 400 non-numeric error; the null is not treated as a missing
\* feature and is not defaulted to 0.0.
C6_NullIsRejected ==
    Resolving =>
        \A k \in 1..Len(internal_features) :
            Supplied(internal_features[k], request) = PyNone =>
                /\ stage = "resolve"
                /\ response.status = 400
                /\ ~InSeq(internal_features[k], missing)

\* C7: unknown payload keys never affect the outcome of resolution.  The
\* resolution of the request's payload equals the resolution of that payload
\* cut down to the keys that are schema identifiers or aliases of schema
\* identifiers: the same row, the same missing list, the same success or the
\* same error.  Every payload within the bounds is posted, so any two payloads
\* that agree on those keys resolve alike, both being equal to the resolution
\* of their common restriction.
C7_UnknownKeysIgnored ==
    Resolving =>
        LET res == ResolveFeatures(Restrict(request, RelevantKeys))
        IN  /\ res.ok = (stage # "resolve")
            /\ res.row = row
            /\ res.missing = missing
            /\ ~res.ok => (response.feature = res.feat /\ response.value = res.val)

\* A successful answer to a payload whose unknown key carries a string and
\* whose alias of a non-schema feature carries an object.
C7_Witness ==
    /\ Answered
    /\ stage = "return"
    /\ internal_features = <<"s1">>
    /\ DOMAIN request = {"vibration_rms", "Altitude_factor"}
    /\ request["vibration_rms"] = Text
    /\ request["Altitude_factor"] = Object
    /\ row = <<0>>

----------------------------------------------------------------------------
(* Properties of the inference stage and of the globals. *)

CallsOf(fn) == {i \in 1..Len(calls) : calls[i].fn = fn}

\* C8: if scaler.transform raises, the answer is 500 "Scaler transform failed"
\* and model.predict is not invoked; if model.predict raises, the answer is 500
\* "Model prediction failed"; a resolution error is always a 400; and each
\* stage is attempted at most once per request.
C8_InferenceErrorsAreServerErrors ==
    Answered =>
        /\ (\E i \in CallsOf("scaler.transform") : calls[i].raised) =>
               /\ response.status = 500
               /\ response.detail = "Scaler transform failed"
               /\ CallsOf("model.predict") = {}
        /\ (\E i \in CallsOf("model.predict") : calls[i].raised) =>
               /\ response.status = 500
               /\ response.detail = "Model prediction failed"
        /\ stage = "resolve" => response.status = 400
        /\ response.status = 400 => calls = <<>>
        /\ Cardinality(CallsOf("scaler.transform")) <= 1
        /\ Cardinality(CallsOf("model.predict")) <= 1

\* The scaler raised on a fully supplied row.
C8_Witness ==
    /\ Answered
    /\ internal_features = <<"op_setting1", "s1">>
    /\ row = <<1, 1>>
    /\ Len(calls) = 1
    /\ calls[1].fn = "scaler.transform"
    /\ calls[1].raised
    /\ response.detail = "Scaler transform failed"

\* /health says "ok" exactly when the service is Ready, and /predict turns a
\* request away at its gate exactly when the service is not.
HealthAgreesWithGate ==
    /\ response.endpoint = "/health" => (response.body_status = "ok" <=> Ready)
    /\ Answered => (stage = "gate" <=> ~Ready)

\* C9: after startup no request, failing or not, changes model, scaler,
\* internal_features, readable_to_internal or internal_to_readables, so Ready
\* stays Ready and Unready stays Unready, and /health reports "ok" exactly when
\* /predict passes its readiness gate.
C9_GlobalsNeverChange ==
    /\ [][globals' = globals /\ (Ready' <=> Ready)]_vars
    /\ []HealthAgreesWithGate

\* A prediction failed on a Ready service, which is still Ready.
C9_Witness ==
    /\ Answered
    /\ stage = "predict"
    /\ response.status = 500
    /\ Ready

====
